---- MODULE Spec2Model ----
(***************************************************************************)
(* The embedding service of src/embedding_service.py: the two request      *)
(* handlers embed and embed_batch, the Redis cache adapter                  *)
(* (get_cached_embedding, cache_embedding) and the collaborators they talk *)
(* to (the BGE-M3 model and the Redis server).                              *)
(*                                                                         *)
(* Both handlers are "async def" bodies without a single await, so one     *)
(* request runs to completion before the event loop starts the next: a     *)
(* handler is one atomic action of the process.                            *)
(***************************************************************************)
EXTENDS Integers, Sequences, FiniteSets, TLC

\* ---------------------------------------------------------------- constants

EMBEDDING_DIM == 1024

CACHE_TTL == 3600

\* Longest batch a request carries.
MaxBatch == 2

\* How many times the clock advances in a run.
MaxTicks == 2

\* The clock advances in steps of half a TTL.
TickStep == CACHE_TTL \div 2

\* ------------------------------------------------------------ Python values

None == [kind |-> "None"]

\* A numpy row of dense_vecs: its length and its content.
ndarray(n, v) == [kind |-> "ndarray", len |-> n, val |-> v]

\* ndarray.tolist(): a Python list of the same floats.
tolist(vec) == [kind |-> "list", len |-> vec.len, val |-> vec.val]

\* len() of an array or a list.
len(x) == x.len

\* pickle.dumps(obj): bytes that unpickle to obj.
pickle_dumps(obj) == [kind |-> "bytes", valid |-> TRUE, pickle |-> obj]

\* Bytes that are no pickle (a value some other writer left under a key).
Garbage == [kind |-> "bytes", valid |-> FALSE, pickle |-> None]

\* pickle.loads(b): the object, or an exception on bytes that are no pickle.
pickle_loads(b) ==
    IF b.valid THEN [raised |-> FALSE, value |-> b.pickle]
    ELSE [raised |-> TRUE, value |-> None]

\* ------------------------------------------------------------------- texts

\* A text is a sequence of characters.
Whitespace == {" ", "\t"}

RECURSIVE lstrip(_)
lstrip(s) ==
    IF s # <<>> /\ Head(s) \in Whitespace THEN lstrip(Tail(s)) ELSE s

RECURSIVE rstrip(_)
rstrip(s) ==
    IF s # <<>> /\ s[Len(s)] \in Whitespace
    THEN rstrip(SubSeq(s, 1, Len(s) - 1))
    ELSE s

\* str.strip()
strip(s) == rstrip(lstrip(s))

\* The texts a request can carry: empty, whitespace only, plain, padded.
Texts == {<<>>, <<"\t">>, <<"a">>, <<" ", "a", " ">>}

Batches == UNION {[1..n -> Texts] : n \in 0..MaxBatch}

\* ------------------------------------------------------------------- state

VARIABLES
    CACHE_ENABLED,  \* the result of the startup ping
    redis,          \* the server's keys: key -> [value, expire]
    redisUp,        \* whether the server answers now
    now,            \* the clock, in seconds
    model,          \* the embedding model
    last,           \* the latest request: what it was given, did and returned
    flight          \* per worker process: the request its handler is inside

vars == <<CACHE_ENABLED, redis, redisUp, now, model, last, flight>>

\* What a handler reads of the process and its collaborators.
Env == [enabled |-> CACHE_ENABLED, up |-> redisUp, store |-> redis, now |-> now]

\* ----------------------------------------------------------- cache adapter

\* Mutant of get_cache_key: the digest does not depend on the text.
get_cache_key_fixed(text) == [prefix |-> "emb:", md5 |-> <<>>]

\* "emb:" + md5(text): one digest per text.
get_cache_key(text) == [prefix |-> "emb:", md5 |-> text]

\* cache.get(key) on the server: the bytes, or None for an absent key.
redis_get(store, key) ==
    IF key \in DOMAIN store THEN store[key].value ELSE None

\* Mutant of redis_setex: a key that is held is left as it is (SET NX).
redis_setex_nx(store, key, ttl, value, t) ==
    [k \in DOMAIN store \cup {key} |->
        IF k = key /\ k \notin DOMAIN store
        THEN [value |-> value, expire |-> t + ttl] ELSE store[k]]

\* Mutant of redis_setex: a key that is held takes the new value and keeps
\* the time to live it has (SET KEEPTTL).
redis_setex_keepttl(store, key, ttl, value, t) ==
    [k \in DOMAIN store \cup {key} |->
        IF k # key THEN store[k]
        ELSE IF k \in DOMAIN store
        THEN [value |-> value, expire |-> store[k].expire]
        ELSE [value |-> value, expire |-> t + ttl]]

\* cache.setex(key, ttl, value) on the server.
redis_setex(store, key, ttl, value, t) ==
    [k \in DOMAIN store \cup {key} |->
        IF k = key THEN [value |-> value, expire |-> t + ttl] ELSE store[k]]

\* The server drops the keys whose time has come.
redis_expire(store, t) ==
    [k \in {x \in DOMAIN store : store[x].expire > t} |-> store[k]]

\* Mutant of get_cached_embedding: a GET the server does not answer is not
\* given up; the value the key holds is returned all the same.
get_cached_embedding_ignore_down(text, env) ==
    IF ~env.enabled THEN [value |-> None, gets |-> <<>>]
    ELSE
        LET key == get_cache_key(text)
            cached == redis_get(env.store, key)
        IN  IF cached = None
            THEN [value |-> None,
                  gets |-> <<[key |-> key, reply |-> "nil"]>>]
            ELSE IF pickle_loads(cached).raised
            THEN [value |-> None,
                  gets |-> <<[key |-> key, reply |-> "bytes"]>>]
            ELSE [value |-> pickle_loads(cached).value,
                  gets |-> <<[key |-> key, reply |-> "bytes"]>>]

\* get_cached_embedding(text): the value it returns and the GETs it sent.
get_cached_embedding(text, env) ==
    IF ~env.enabled THEN [value |-> None, gets |-> <<>>]
    ELSE
        LET key == get_cache_key(text)
        IN  IF ~env.up
            THEN [value |-> None, gets |-> <<[key |-> key, reply |-> "error"]>>]
            ELSE
                LET cached == redis_get(env.store, key)
                IN  IF cached = None
                    THEN [value |-> None,
                          gets |-> <<[key |-> key, reply |-> "nil"]>>]
                    ELSE IF pickle_loads(cached).raised
                    THEN [value |-> None,
                          gets |-> <<[key |-> key, reply |-> "bytes"]>>]
                    ELSE [value |-> pickle_loads(cached).value,
                          gets |-> <<[key |-> key, reply |-> "bytes"]>>]

\* Mutant of cache_embedding: CACHE_ENABLED is not consulted; the write goes
\* out whenever the server answers.
cache_embedding_unguarded(text, embedding, env) ==
    LET key == get_cache_key(text)
        put == [key |-> key, ttl |-> CACHE_TTL, value |-> pickle_dumps(embedding)]
    IN  IF ~env.up
        THEN [store |-> env.store,
              puts |-> <<[put |-> put, reply |-> "error", at |-> env.now]>>]
        ELSE [store |-> redis_setex(env.store, key, CACHE_TTL,
                                    pickle_dumps(embedding), env.now),
              puts |-> <<[put |-> put, reply |-> "ok", at |-> env.now]>>]

\* cache_embedding(text, embedding): the store after it and the SETEXs it
\* sent, each with the server's reply and the time it was sent at.
cache_embedding(text, embedding, env) ==
    IF ~env.enabled THEN [store |-> env.store, puts |-> <<>>]
    ELSE
        LET key == get_cache_key(text)
            put == [key |-> key, ttl |-> CACHE_TTL, value |-> pickle_dumps(embedding)]
        IN  IF ~env.up
            THEN [store |-> env.store,
                  puts |-> <<[put |-> put, reply |-> "error", at |-> env.now]>>]
            ELSE [store |-> redis_setex(env.store, key, CACHE_TTL,
                                        pickle_dumps(embedding), env.now),
                  puts |-> <<[put |-> put, reply |-> "ok", at |-> env.now]>>]

\* ------------------------------------------------------------------- model

\* The contents the model can give a vector.
Vals == {"u", "v"}

\* What the model can give for one text: no vector, a vector one short of
\* EMBEDDING_DIM, or a vector of EMBEDDING_DIM with one of the contents.
VecOutcomes ==
    {None, ndarray(EMBEDDING_DIM - 1, "u")}
        \cup {ndarray(EMBEDDING_DIM, v) : v \in Vals}

\* The normalized texts the model is ever given.
CleanTexts == {strip(t) : t \in Texts} \cup {<<" ">>}

\* model.encode(texts)["dense_vecs"] raised.
EncodeRaised == [raised |-> TRUE, dense_vecs |-> <<>>]

\* model.encode(texts)["dense_vecs"]: every reply the call can give, one row
\* per text, in the order of the texts. A deterministic model gives each text
\* its one vector; the call can fail either way.
ModelEncode(m, texts) ==
    {EncodeRaised} \cup
    IF m.deterministic
    THEN {[raised |-> FALSE,
           dense_vecs |-> [j \in 1..Len(texts) |-> m.encode[texts[j]]]]}
    ELSE {[raised |-> FALSE, dense_vecs |-> d] :
            d \in [1..Len(texts) -> VecOutcomes]}

\* --------------------------------------------------------------- handlers

\* What a handler did: the HTTP outcome, the response body, the store it
\* leaves, and the calls it made to the store and to the model.
Done(status, body, store, gets, calls, puts) ==
    [status |-> status, body |-> body, store |-> store,
     gets |-> gets, calls |-> calls, puts |-> puts]

\* The exception of a failed model call leaves the handler: a 500.
ServerError == [detail |-> "Internal Server Error"]

\* Mutant of IsValidVec: a vector shorter than EMBEDDING_DIM passes.
IsValidVec_at_most(vec) == vec # None /\ len(vec) <= EMBEDDING_DIM

\* Mutant of IsValidVec: the length of the vector is not checked.
IsValidVec_any_length(vec) == vec # None

\* A vector the handlers accept.
IsValidVec(vec) == vec # None /\ len(vec) = EMBEDDING_DIM

\* Mutant of embed: a blank text is not turned away; it becomes a single
\* space, as embed_batch makes it.
embed_blank_as_space(data_text, env, reply) ==
    LET text == IF strip(data_text) # <<>> THEN strip(data_text) ELSE <<" ">>
        look == get_cached_embedding(text, env)
        call == [texts |-> <<text>>, batch_size |-> 1, reply |-> reply]
    IN  IF look.value # None
        THEN Done("ok", [embedding |-> look.value, cached |-> TRUE],
                  env.store, look.gets, <<>>, <<>>)
        ELSE IF reply.raised
        THEN Done("error", ServerError, env.store, look.gets, <<call>>, <<>>)
        ELSE
            LET vec == reply.dense_vecs[1]
            IN  IF ~IsValidVec(vec)
                THEN Done("ok", [embedding |-> None],
                          env.store, look.gets, <<call>>, <<>>)
                ELSE
                    LET embedding == tolist(vec)
                        w == cache_embedding(text, embedding, env)
                    IN  Done("ok", [embedding |-> embedding, cached |-> FALSE],
                             w.store, look.gets, <<call>>, w.puts)

\* Mutant of embed: the vector is cached under the text as it was sent, not
\* under the stripped text.
embed_cache_raw(data_text, env, reply) ==
    LET text == strip(data_text)
        look == get_cached_embedding(text, env)
        call == [texts |-> <<text>>, batch_size |-> 1, reply |-> reply]
    IN  IF text = <<>>
        THEN Done("ok", [embedding |-> None], env.store, <<>>, <<>>, <<>>)
        ELSE IF look.value # None
        THEN Done("ok", [embedding |-> look.value, cached |-> TRUE],
                  env.store, look.gets, <<>>, <<>>)
        ELSE IF reply.raised
        THEN Done("error", ServerError, env.store, look.gets, <<call>>, <<>>)
        ELSE
            LET vec == reply.dense_vecs[1]
            IN  IF ~IsValidVec(vec)
                THEN Done("ok", [embedding |-> None],
                          env.store, look.gets, <<call>>, <<>>)
                ELSE
                    LET embedding == tolist(vec)
                        w == cache_embedding(data_text, embedding, env)
                    IN  Done("ok", [embedding |-> embedding, cached |-> FALSE],
                             w.store, look.gets, <<call>>, w.puts)

\* Mutant of embed: a vector found in the cache is written back, which
\* starts its time to live again.
embed_refresh_on_hit(data_text, env, reply) ==
    LET text == strip(data_text)
        look == get_cached_embedding(text, env)
        call == [texts |-> <<text>>, batch_size |-> 1, reply |-> reply]
    IN  IF text = <<>>
        THEN Done("ok", [embedding |-> None], env.store, <<>>, <<>>, <<>>)
        ELSE IF look.value # None
        THEN LET w == cache_embedding(text, look.value, env)
             IN  Done("ok", [embedding |-> look.value, cached |-> TRUE],
                      w.store, look.gets, <<>>, w.puts)
        ELSE IF reply.raised
        THEN Done("error", ServerError, env.store, look.gets, <<call>>, <<>>)
        ELSE
            LET vec == reply.dense_vecs[1]
            IN  IF ~IsValidVec(vec)
                THEN Done("ok", [embedding |-> None],
                          env.store, look.gets, <<call>>, <<>>)
                ELSE
                    LET embedding == tolist(vec)
                        w == cache_embedding(text, embedding, env)
                    IN  Done("ok", [embedding |-> embedding, cached |-> FALSE],
                             w.store, look.gets, <<call>>, w.puts)

\* embed(data): POST /embed. reply is what model.encode gives if called.
embed(data_text, env, reply) ==
    LET text == strip(data_text)
        look == get_cached_embedding(text, env)
        call == [texts |-> <<text>>, batch_size |-> 1, reply |-> reply]
    IN  IF text = <<>>
        THEN Done("ok", [embedding |-> None], env.store, <<>>, <<>>, <<>>)
        ELSE IF look.value # None
        THEN Done("ok", [embedding |-> look.value, cached |-> TRUE],
                  env.store, look.gets, <<>>, <<>>)
        ELSE IF reply.raised
        THEN Done("error", ServerError, env.store, look.gets, <<call>>, <<>>)
        ELSE
            LET vec == reply.dense_vecs[1]
            IN  IF ~IsValidVec(vec)
                THEN Done("ok", [embedding |-> None],
                          env.store, look.gets, <<call>>, <<>>)
                ELSE
                    LET embedding == tolist(vec)
                        w == cache_embedding(text, embedding, env)
                    IN  Done("ok", [embedding |-> embedding, cached |-> FALSE],
                             w.store, look.gets, <<call>>, w.puts)

\* The text embed sends to the model on a miss.
EmbedMisses(data_text, env) == <<strip(data_text)>>

\* Mutant of clean_text: a blank text is stripped like any other and stays
\* empty.
clean_text_strip_only(t) == strip(t)

\* t.strip() if isinstance(t, str) and t.strip() else " "
clean_text(t) == IF strip(t) # <<>> THEN strip(t) ELSE <<" ">>

\* zip(a, b): pairs up to the shorter of the two.
zip(a, b) ==
    [j \in 1..(IF Len(a) <= Len(b) THEN Len(a) ELSE Len(b)) |-> <<a[j], b[j]>>]

\* Mutant of lookup_loop: a text found in the cache is submitted to the model
\* all the same.
RECURSIVE lookup_loop_resubmit(_, _, _, _)
lookup_loop_resubmit(i, cleaned_texts, env, acc) ==
    IF i > Len(cleaned_texts) THEN acc
    ELSE
        LET text == cleaned_texts[i]
            look == get_cached_embedding(text, env)
        IN  IF look.value # None
            THEN lookup_loop_resubmit(i + 1, cleaned_texts, env,
                    [acc EXCEPT !.results = Append(@, look.value),
                                !.texts_to_generate = Append(@, text),
                                !.gets = @ \o look.gets])
            ELSE lookup_loop_resubmit(i + 1, cleaned_texts, env,
                    [acc EXCEPT !.results = Append(@, None),
                                !.texts_to_generate = Append(@, text),
                                !.indices_to_generate = Append(@, i),
                                !.gets = @ \o look.gets])

\* Mutant of lookup_loop: a text that is already to be generated is not
\* submitted a second time.
RECURSIVE lookup_loop_dedupe(_, _, _, _)
lookup_loop_dedupe(i, cleaned_texts, env, acc) ==
    IF i > Len(cleaned_texts) THEN acc
    ELSE
        LET text == cleaned_texts[i]
            look == get_cached_embedding(text, env)
            queued == \E m \in 1..Len(acc.texts_to_generate) :
                            acc.texts_to_generate[m] = text
        IN  IF look.value # None
            THEN lookup_loop_dedupe(i + 1, cleaned_texts, env,
                    [acc EXCEPT !.results = Append(@, look.value),
                                !.gets = @ \o look.gets])
            ELSE IF queued
            THEN lookup_loop_dedupe(i + 1, cleaned_texts, env,
                    [acc EXCEPT !.results = Append(@, None),
                                !.gets = @ \o look.gets])
            ELSE lookup_loop_dedupe(i + 1, cleaned_texts, env,
                    [acc EXCEPT !.results = Append(@, None),
                                !.texts_to_generate = Append(@, text),
                                !.indices_to_generate = Append(@, i),
                                !.gets = @ \o look.gets])

\* The lookup loop of embed_batch, positions 1..Len(cleaned_texts) in order:
\* results, texts_to_generate, indices_to_generate and the GETs sent.
RECURSIVE lookup_loop(_, _, _, _)
lookup_loop(i, cleaned_texts, env, acc) ==
    IF i > Len(cleaned_texts) THEN acc
    ELSE
        LET text == cleaned_texts[i]
            look == get_cached_embedding(text, env)
        IN  IF look.value # None
            THEN lookup_loop(i + 1, cleaned_texts, env,
                    [acc EXCEPT !.results = Append(@, look.value),
                                !.gets = @ \o look.gets])
            ELSE lookup_loop(i + 1, cleaned_texts, env,
                    [acc EXCEPT !.results = Append(@, None),
                                !.texts_to_generate = Append(@, text),
                                !.indices_to_generate = Append(@, i),
                                !.gets = @ \o look.gets])

\* Mutant of fill_loop: the vector of the j-th pair is stored at position j of
\* the results, not at the index recorded for it.
RECURSIVE fill_loop_by_rank(_, _, _, _, _)
fill_loop_by_rank(j, pairs, cleaned_texts, env, acc) ==
    IF j > Len(pairs) THEN acc
    ELSE
        LET idx == pairs[j][1]
            vec == pairs[j][2]
        IN  IF IsValidVec(vec)
            THEN
                LET embedding == tolist(vec)
                    w == cache_embedding(cleaned_texts[idx], embedding,
                                         [env EXCEPT !.store = acc.store])
                IN  fill_loop_by_rank(j + 1, pairs, cleaned_texts, env,
                        [results |-> [acc.results EXCEPT ![j] = embedding],
                         store |-> w.store,
                         puts |-> acc.puts \o w.puts])
            ELSE fill_loop_by_rank(j + 1, pairs, cleaned_texts, env, acc)

\* Mutant of fill_loop: the vector of the j-th pair is cached under the text
\* of position j, not under the text of the index recorded for it.
RECURSIVE fill_loop_key_by_rank(_, _, _, _, _)
fill_loop_key_by_rank(j, pairs, cleaned_texts, env, acc) ==
    IF j > Len(pairs) THEN acc
    ELSE
        LET idx == pairs[j][1]
            vec == pairs[j][2]
        IN  IF IsValidVec(vec)
            THEN
                LET embedding == tolist(vec)
                    w == cache_embedding(cleaned_texts[j], embedding,
                                         [env EXCEPT !.store = acc.store])
                IN  fill_loop_key_by_rank(j + 1, pairs, cleaned_texts, env,
                        [results |-> [acc.results EXCEPT ![idx] = embedding],
                         store |-> w.store,
                         puts |-> acc.puts \o w.puts])
            ELSE fill_loop_key_by_rank(j + 1, pairs, cleaned_texts, env, acc)

\* The fill loop of embed_batch over zip(indices_to_generate, vectors).
RECURSIVE fill_loop(_, _, _, _, _)
fill_loop(j, pairs, cleaned_texts, env, acc) ==
    IF j > Len(pairs) THEN acc
    ELSE
        LET idx == pairs[j][1]
            vec == pairs[j][2]
        IN  IF IsValidVec(vec)
            THEN
                LET embedding == tolist(vec)
                    w == cache_embedding(cleaned_texts[idx], embedding,
                                         [env EXCEPT !.store = acc.store])
                IN  fill_loop(j + 1, pairs, cleaned_texts, env,
                        [results |-> [acc.results EXCEPT ![idx] = embedding],
                         store |-> w.store,
                         puts |-> acc.puts \o w.puts])
            ELSE fill_loop(j + 1, pairs, cleaned_texts, env, acc)

\* The state of embed_batch after its lookup loop.
BatchLookups(texts, env) ==
    lookup_loop(1, [i \in 1..Len(texts) |-> clean_text(texts[i])], env,
        [results |-> <<>>, texts_to_generate |-> <<>>,
         indices_to_generate |-> <<>>, gets |-> <<>>])

\* Mutant of embed_batch: a failed model call is swallowed and the positions
\* found in the cache are returned.
embed_batch_swallow(texts, env, reply) ==
    IF texts = <<>>
    THEN Done("ok", [embeddings |-> <<>>], env.store, <<>>, <<>>, <<>>)
    ELSE
        LET cleaned_texts == [i \in 1..Len(texts) |-> clean_text(texts[i])]
            lk == BatchLookups(texts, env)
            call == [texts |-> lk.texts_to_generate, batch_size |-> 12,
                     reply |-> reply]
        IN  IF lk.texts_to_generate = <<>>
            THEN Done("ok", [embeddings |-> lk.results],
                      env.store, lk.gets, <<>>, <<>>)
            ELSE IF reply.raised
            THEN Done("ok", [embeddings |-> lk.results],
                      env.store, lk.gets, <<call>>, <<>>)
            ELSE
                LET f == fill_loop(1,
                            zip(lk.indices_to_generate, reply.dense_vecs),
                            cleaned_texts, env,
                            [results |-> lk.results, store |-> env.store,
                             puts |-> <<>>])
                IN  Done("ok", [embeddings |-> f.results],
                         f.store, lk.gets, <<call>>, f.puts)

\* embed_batch(data): POST /embed/batch. Positions are 1-based here.
embed_batch(texts, env, reply) ==
    IF texts = <<>>
    THEN Done("ok", [embeddings |-> <<>>], env.store, <<>>, <<>>, <<>>)
    ELSE
        LET cleaned_texts == [i \in 1..Len(texts) |-> clean_text(texts[i])]
            lk == BatchLookups(texts, env)
            call == [texts |-> lk.texts_to_generate, batch_size |-> 12,
                     reply |-> reply]
        IN  IF lk.texts_to_generate = <<>>
            THEN Done("ok", [embeddings |-> lk.results],
                      env.store, lk.gets, <<>>, <<>>)
            ELSE IF reply.raised
            THEN Done("error", ServerError, env.store, lk.gets, <<call>>, <<>>)
            ELSE
                LET f == fill_loop(1,
                            zip(lk.indices_to_generate, reply.dense_vecs),
                            cleaned_texts, env,
                            [results |-> lk.results, store |-> env.store,
                             puts |-> <<>>])
                IN  Done("ok", [embeddings |-> f.results],
                         f.store, lk.gets, <<call>>, f.puts)

\* ----------------------------------------------------------------- actions

\* The record of a finished request: what it was given, when, what it
\* returned and the calls it made; again says that the request before it was
\* the same request, and calls_before how many model calls that one made.
Record(op, texts, d) ==
    [op |-> op, texts |-> texts,
     again |-> (last.op = op /\ last.texts = texts),
     calls_before |-> IF last.op = op /\ last.texts = texts
                      THEN Len(last.calls) ELSE 0,
     at |-> now,
     status |-> d.status, body |-> d.body,
     gets |-> d.gets, calls |-> d.calls, puts |-> d.puts]

NoRequest ==
    [op |-> "none", texts |-> <<>>, again |-> FALSE, calls_before |-> 0,
     at |-> 0,
     status |-> "ok", body |-> None,
     gets |-> <<>>, calls |-> <<>>, puts |-> <<>>]

\* The worker processes that serve requests against the one store.
Workers == {"p", "q"}

\* A handler that holds no request. pc is where the handler stands: in its
\* lookups, at model.encode, in its write-back, or done; i is the position
\* of the loop it is in.
Idle ==
    [pc |-> "idle", op |-> "none", texts |-> <<>>, i |-> 0,
     results |-> <<>>, texts_to_generate |-> <<>>,
     indices_to_generate |-> <<>>, vectors |-> <<>>,
     status |-> "ok", body |-> None,
     gets |-> <<>>, calls |-> <<>>, puts |-> <<>>]

\* Startup: the ping decides CACHE_ENABLED once; the store holds nothing.
InitProcess ==
    /\ redisUp \in BOOLEAN
    /\ CACHE_ENABLED = redisUp
    /\ redis = <<>>
    /\ now = 0
    /\ last = NoRequest
    /\ flight = [w \in Workers |-> Idle]

\* A model whose replies are not a function of the text.
Init ==
    /\ InitProcess
    /\ model = [deterministic |-> FALSE, encode |-> <<>>]

\* A model that gives every text its one vector.
InitDet ==
    /\ InitProcess
    /\ \E e \in [CleanTexts -> VecOutcomes] :
            model = [deterministic |-> TRUE, encode |-> e]

\* A finished handler is retired before the server or the clock move on: the
\* record it leaves in flight is, like last, no part of the process.
\* last holds a request's record until Forget drops it. Forget changes nothing
\* of the process, so every run of the process is still a run of the model;
\* the guards on last.op below only decide which records are held while the
\* next step is taken: an embed's record can be followed by a second embed
\* (two requests in succession), a batch's record is dropped first.
Embed(t) ==
    /\ last.op \in {"none", "embed"}
    /\ \E reply \in ModelEncode(model, EmbedMisses(t, Env)) :
         LET d == embed(t, Env, reply)
         IN  /\ redis' = d.store
             /\ last' = Record("embed", <<t>>, d)
             /\ UNCHANGED <<CACHE_ENABLED, redisUp, now, model, flight>>

EmbedBatch(B) ==
    /\ last.op = "none"
    /\ \E reply \in ModelEncode(model, BatchLookups(B, Env).texts_to_generate) :
         LET d == embed_batch(B, Env, reply)
         IN  /\ redis' = d.store
             /\ last' = Record("embed_batch", B, d)
             /\ UNCHANGED <<CACHE_ENABLED, redisUp, now, model, flight>>

\* The record of the latest request is dropped.
Forget ==
    /\ last.op # "none"
    /\ last' = NoRequest
    /\ UNCHANGED <<CACHE_ENABLED, redis, redisUp, now, model, flight>>

\* Time passes; the server expires what is due.
Tick ==
    /\ last.op # "embed_batch"
    /\ \A w \in Workers : flight[w].pc \notin {"done", "cancelled"}
    /\ now + TickStep <= MaxTicks * TickStep
    /\ now' = now + TickStep
    /\ redis' = redis_expire(redis, now')
    /\ UNCHANGED <<CACHE_ENABLED, redisUp, model, last, flight>>

\* The server goes away or comes back.
RedisFlip ==
    /\ last.op # "embed_batch"
    /\ \A w \in Workers : flight[w].pc \notin {"done", "cancelled"}
    /\ redisUp' = ~redisUp
    /\ UNCHANGED <<CACHE_ENABLED, redis, now, model, last, flight>>

Next ==
    \/ \E t \in Texts : Embed(t)
    \/ \E B \in Batches : EmbedBatch(B)
    \/ Forget
    \/ Tick
    \/ RedisFlip

Spec == Init /\ [][Next]_vars

SpecDet == InitDet /\ [][Next]_vars

\* ------------------------------------------------ the handlers, call by call
\* A handler's calls to the store and to the model are the points where the
\* server, the clock and another worker process take their steps. The
\* actions below run a handler one call at a time.

Requests ==
    {[op |-> "embed", texts |-> <<t>>] : t \in Texts}
        \cup {[op |-> "embed_batch", texts |-> B] : B \in Batches}

\* The requests of at most one text.
Singles == {r \in Requests : Len(r.texts) <= 1}

cleaned_texts(texts) == [k \in 1..Len(texts) |-> clean_text(texts[k])]

\* The handler up to its first call: embed returns at a blank text,
\* embed_batch at an empty list.
Begin(op, texts) ==
    IF op = "embed"
    THEN IF strip(texts[1]) = <<>>
         THEN [Idle EXCEPT !.pc = "done", !.op = op, !.texts = texts,
                           !.body = [embedding |-> None]]
         ELSE [Idle EXCEPT !.pc = "lookup", !.op = op, !.texts = texts,
                           !.i = 1]
    ELSE IF texts = <<>>
         THEN [Idle EXCEPT !.pc = "done", !.op = op, !.texts = texts,
                           !.body = [embeddings |-> <<>>]]
         ELSE [Idle EXCEPT !.pc = "lookup", !.op = op, !.texts = texts,
                           !.i = 1]

\* Mutant of LookedUp: what the lookup finds is not used; every position is
\* generated.
LookedUp_always_miss(f, env) ==
    IF f.op = "embed"
    THEN
        LET text == strip(f.texts[1])
            look == get_cached_embedding(text, env)
        IN  [f EXCEPT !.pc = "encode", !.gets = @ \o look.gets,
                      !.texts_to_generate = <<text>>,
                      !.indices_to_generate = <<1>>]
    ELSE
        LET text == cleaned_texts(f.texts)[f.i]
            look == get_cached_embedding(text, env)
            g == [f EXCEPT !.results = Append(@, None),
                           !.texts_to_generate = Append(@, text),
                           !.indices_to_generate = Append(@, f.i),
                           !.gets = @ \o look.gets,
                           !.i = f.i + 1]
        IN  IF f.i < Len(f.texts) THEN g ELSE [g EXCEPT !.pc = "encode"]

\* One get_cached_embedding: the only one of embed, the one for position
\* f.i of embed_batch; after the last one the handler returns if nothing
\* is left to generate.
LookedUp(f, env) ==
    IF f.op = "embed"
    THEN
        LET text == strip(f.texts[1])
            look == get_cached_embedding(text, env)
        IN  IF look.value # None
            THEN [f EXCEPT !.pc = "done", !.gets = @ \o look.gets,
                           !.body = [embedding |-> look.value,
                                     cached |-> TRUE]]
            ELSE [f EXCEPT !.pc = "encode", !.gets = @ \o look.gets,
                           !.texts_to_generate = <<text>>,
                           !.indices_to_generate = <<1>>]
    ELSE
        LET acc == lookup_loop(f.i, SubSeq(cleaned_texts(f.texts), 1, f.i),
                        env,
                        [results |-> f.results,
                         texts_to_generate |-> f.texts_to_generate,
                         indices_to_generate |-> f.indices_to_generate,
                         gets |-> f.gets])
            g == [f EXCEPT !.results = acc.results,
                           !.texts_to_generate = acc.texts_to_generate,
                           !.indices_to_generate = acc.indices_to_generate,
                           !.gets = acc.gets,
                           !.i = f.i + 1]
        IN  IF f.i < Len(f.texts) THEN g
            ELSE IF acc.texts_to_generate = <<>>
            THEN [g EXCEPT !.pc = "done",
                           !.body = [embeddings |-> acc.results]]
            ELSE [g EXCEPT !.pc = "encode"]

\* The model.encode call and what the handler does with a reply it cannot
\* use: an exception leaves the handler, embed returns null for a vector
\* that is not valid.
Encoded(f, reply) ==
    LET call == [texts |-> f.texts_to_generate,
                 batch_size |-> IF f.op = "embed" THEN 1 ELSE 12,
                 reply |-> reply]
        g == [f EXCEPT !.calls = Append(@, call)]
    IN  IF reply.raised
        THEN [g EXCEPT !.pc = "done", !.status = "error",
                       !.body = ServerError]
        ELSE IF f.op = "embed" /\ ~IsValidVec(reply.dense_vecs[1])
        THEN [g EXCEPT !.pc = "done", !.body = [embedding |-> None]]
        ELSE [g EXCEPT !.pc = "fill", !.vectors = reply.dense_vecs,
                       !.i = 1]

\* Mutant of Filled: the vectors go into the response and none is written to
\* the store.
Filled_skip_cache(f, env) ==
    IF f.op = "embed"
    THEN [flight |-> [f EXCEPT !.pc = "done",
                               !.body = [embedding |-> tolist(f.vectors[1]),
                                         cached |-> FALSE]],
          store |-> env.store]
    ELSE
        LET pairs == zip(f.indices_to_generate, f.vectors)
            acc == fill_loop(f.i, SubSeq(pairs, 1, f.i),
                        cleaned_texts(f.texts), env,
                        [results |-> f.results, store |-> env.store,
                         puts |-> f.puts])
            g == [f EXCEPT !.results = acc.results, !.i = f.i + 1]
        IN  [flight |-> IF f.i < Len(pairs) THEN g
                        ELSE [g EXCEPT !.pc = "done",
                                       !.body = [embeddings |-> acc.results]],
             store |-> env.store]

\* Mutant of Filled: embed caches its vector under the text as it was sent,
\* not under the stripped text.
Filled_embed_raw_key(f, env) ==
    IF f.op = "embed"
    THEN
        LET embedding == tolist(f.vectors[1])
            w == cache_embedding(f.texts[1], embedding, env)
        IN  [flight |-> [f EXCEPT !.pc = "done", !.puts = @ \o w.puts,
                                  !.body = [embedding |-> embedding,
                                            cached |-> FALSE]],
             store |-> w.store]
    ELSE
        LET pairs == zip(f.indices_to_generate, f.vectors)
            acc == fill_loop(f.i, SubSeq(pairs, 1, f.i),
                        cleaned_texts(f.texts), env,
                        [results |-> f.results, store |-> env.store,
                         puts |-> f.puts])
            g == [f EXCEPT !.results = acc.results, !.puts = acc.puts,
                           !.i = f.i + 1]
        IN  [flight |-> IF f.i < Len(pairs) THEN g
                        ELSE [g EXCEPT !.pc = "done",
                                       !.body = [embeddings |-> acc.results]],
             store |-> acc.store]

\* One step of the write-back: the cache_embedding of embed, the pair f.i of
\* zip(indices_to_generate, vectors) of embed_batch; after the last one the
\* handler returns.
Filled(f, env) ==
    IF f.op = "embed"
    THEN
        LET embedding == tolist(f.vectors[1])
            w == cache_embedding(strip(f.texts[1]), embedding, env)
        IN  [flight |-> [f EXCEPT !.pc = "done", !.puts = @ \o w.puts,
                                  !.body = [embedding |-> embedding,
                                            cached |-> FALSE]],
             store |-> w.store]
    ELSE
        LET pairs == zip(f.indices_to_generate, f.vectors)
            acc == fill_loop(f.i, SubSeq(pairs, 1, f.i),
                        cleaned_texts(f.texts), env,
                        [results |-> f.results, store |-> env.store,
                         puts |-> f.puts])
            g == [f EXCEPT !.results = acc.results, !.puts = acc.puts,
                           !.i = f.i + 1]
        IN  [flight |-> IF f.i < Len(pairs) THEN g
                        ELSE [g EXCEPT !.pc = "done",
                                       !.body = [embeddings |-> acc.results]],
             store |-> acc.store]

\* A request reaches worker w.
Arrive(w, r) ==
    /\ flight[w].pc = "idle"
    /\ flight' = [flight EXCEPT ![w] = Begin(r.op, r.texts)]
    /\ UNCHANGED <<CACHE_ENABLED, redis, redisUp, now, model, last>>

Lookup(w) ==
    /\ flight[w].pc = "lookup"
    /\ flight' = [flight EXCEPT ![w] = LookedUp(flight[w], Env)]
    /\ UNCHANGED <<CACHE_ENABLED, redis, redisUp, now, model, last>>

Encode(w) ==
    /\ flight[w].pc = "encode"
    /\ \E reply \in ModelEncode(model, flight[w].texts_to_generate) :
            flight' = [flight EXCEPT ![w] = Encoded(flight[w], reply)]
    /\ UNCHANGED <<CACHE_ENABLED, redis, redisUp, now, model, last>>

Fill(w) ==
    /\ flight[w].pc = "fill"
    /\ LET d == Filled(flight[w], Env)
       IN  /\ flight' = [flight EXCEPT ![w] = d.flight]
           /\ redis' = d.store
    /\ UNCHANGED <<CACHE_ENABLED, redisUp, now, model, last>>

\* The response has been sent or the request dropped; the worker is free.
Retire(w) ==
    /\ flight[w].pc \in {"done", "cancelled"}
    /\ flight' = [flight EXCEPT ![w] = Idle]
    /\ UNCHANGED <<CACHE_ENABLED, redis, redisUp, now, model, last>>

\* The request is cancelled, or its worker stopped, inside the write-back:
\* before its first write, between two writes or after its last.
Cancel(w) ==
    /\ flight[w].pc = "fill"
    /\ flight[w].op = "embed_batch"
    /\ flight' = [flight EXCEPT ![w].pc = "cancelled",
                                ![w].status = "cancelled"]
    /\ UNCHANGED <<CACHE_ENABLED, redis, redisUp, now, model, last>>

\* Another writer leaves bytes that are no pickle under a key of the store.
Corrupt(key) ==
    /\ \A w \in Workers : flight[w].pc \notin {"done", "cancelled"}
    /\ key \in DOMAIN redis
    /\ redis[key].value.valid
    /\ redis' = [redis EXCEPT ![key].value = Garbage]
    /\ UNCHANGED <<CACHE_ENABLED, redisUp, now, model, last, flight>>

Keys == {get_cache_key(c) : c \in CleanTexts}

\* One worker; the server comes and goes between the handler's calls and
\* stored values get corrupted. The clock stands still.
NextFaults ==
    \/ \E r \in Requests : Arrive("p", r)
    \/ Lookup("p")
    \/ Encode("p")
    \/ Fill("p")
    \/ Retire("p")
    \/ RedisFlip
    \/ \E key \in Keys : Corrupt(key)

SpecFaults == Init /\ [][NextFaults]_vars

\* The requests at hand are over, with a response or cancelled; the workers
\* are free.
Clear ==
    /\ flight["p"].pc \in {"done", "cancelled"}
    /\ flight["q"].pc \in {"idle", "done"}
    /\ flight' = [w \in Workers |-> Idle]
    /\ UNCHANGED <<CACHE_ENABLED, redis, redisUp, now, model, last>>

\* A request reaches worker q after the request of worker p was cancelled.
ArriveAfterCancel(r) ==
    /\ flight["p"].pc = "cancelled"
    /\ Arrive("q", r)

\* One worker and a store that keeps answering as it did at startup; the
\* clock runs between the handler's calls.
NextSolo ==
    \/ \E r \in Requests : Arrive("p", r)
    \/ Lookup("p")
    \/ Encode("p")
    \/ Fill("p")
    \/ Retire("p")
    \/ Tick

SpecSolo == Init /\ [][NextSolo]_vars

\* A batch request of worker p can be cancelled in its write-back. The
\* request that comes after a cancelled one is served by worker q and has at
\* most one text. The clock stands still.
NextCancel ==
    \/ \E r \in Requests : Arrive("p", r)
    \/ Lookup("p")
    \/ Encode("p")
    \/ Fill("p")
    \/ Cancel("p")
    \/ Clear
    \/ \E r \in Singles : ArriveAfterCancel(r)
    \/ Lookup("q")
    \/ Encode("q")
    \/ Fill("q")

SpecCancel == Init /\ [][NextCancel]_vars

\* Two workers, each serving one request against the one store; their calls
\* interleave in every order. Worker p is sent any request, worker q one of
\* at most one text.
NextConc ==
    \/ \E r \in Requests : Arrive("p", r)
    \/ \E r \in Singles : Arrive("q", r)
    \/ \E w \in Workers : Lookup(w)
    \/ \E w \in Workers : Encode(w)
    \/ \E w \in Workers : Fill(w)

SpecConc == Init /\ [][NextConc]_vars

\* ------------------------------------------------- vocabulary of the claims

\* The positions of a text that hold no whitespace.
Inked(t) == {i \in 1..Len(t) : t[i] \notin Whitespace}

IsBlank(t) == Inked(t) = {}

\* The text between its first and its last non-whitespace character.
Trimmed(t) ==
    IF IsBlank(t) THEN <<>>
    ELSE SubSeq(t,
                CHOOSE i \in Inked(t) : \A k \in Inked(t) : i <= k,
                CHOOSE i \in Inked(t) : \A k \in Inked(t) : k <= i)

\* The normalized text of a batch position.
BatchText(t) == IF IsBlank(t) THEN <<" ">> ELSE Trimmed(t)

\* A list of exactly EMBEDDING_DIM floats.
IsVector(x) == x.kind = "list" /\ x.len = EMBEDDING_DIM

\* A model output that is a vector of exactly EMBEDDING_DIM.
IsGoodOutput(x) == x.kind = "ndarray" /\ x.len = EMBEDDING_DIM

\* The list holding the floats of a model output.
ListOf(x) == [kind |-> "list", len |-> x.len, val |-> x.val]

\* In the state a request starts from: the store is in use and answers.
Reachable == CACHE_ENABLED /\ redisUp

\* In the state a request starts from: a lookup of normalized text c hits.
Cached(c) ==
    /\ Reachable
    /\ get_cache_key(c) \in DOMAIN redis
    /\ redis[get_cache_key(c)].value.valid

\* The object stored under the key of normalized text c.
Entry(c) == redis[get_cache_key(c)].value.pickle

\* The step is a batch request: last' is its record, the unprimed variables
\* are the state it started from.
BatchStep == last.op = "none" /\ last'.op = "embed_batch"

\* The step is a single-text request.
EmbedStep == last'.op = "embed" /\ last' # last

\* Among positions 1..i of batch B, those that miss in the starting state.
MissesUpTo(B, i) == {k \in 1..i : ~Cached(BatchText(B[k]))}

\* ------------------------------------------------------------------ claims

\* C1: a batch request that returns gives a result as long as its input, and
\* the result at every position is the vector of that position's own
\* normalized text: the cache entry under that text's key on a hit, else the
\* model's output for that text, which was submitted at the position's rank
\* among the misses.
C1_ResultAligned ==
    [][(BatchStep /\ last'.status = "ok") =>
        LET B == last'.texts
            R == last'.body.embeddings
        IN  /\ Len(R) = Len(B)
            /\ \A i \in 1..Len(B) :
                LET c == BatchText(B[i])
                    m == Cardinality(MissesUpTo(B, i))
                IN  IF Cached(c) THEN R[i] = Entry(c)
                    ELSE /\ Len(last'.calls) = 1
                         /\ last'.calls[1].texts[m] = c
                         /\ LET out == last'.calls[1].reply.dense_vecs[m]
                            IN  R[i] = IF IsGoodOutput(out) THEN ListOf(out)
                                       ELSE None]_vars

\* C1 witness: a batch of two different texts returned, the first position
\* served from the cache and the second by the model, with different vectors.
C1_Witness ==
    /\ last.op = "embed_batch" /\ last.status = "ok"
    /\ Len(last.texts) = 2
    /\ Len(last.gets) = 2
    /\ last.gets[1].reply = "bytes" /\ last.gets[2].reply = "nil"
    /\ Len(last.calls) = 1 /\ Len(last.calls[1].texts) = 1
    /\ IsVector(last.body.embeddings[1])
    /\ IsVector(last.body.embeddings[2])
    /\ last.body.embeddings[1] # last.body.embeddings[2]

\* C2: in a returned batch result every position holds None or a vector of
\* EMBEDDING_DIM, and holds a vector exactly when its lookup hit or the model
\* gave a vector of EMBEDDING_DIM for the miss recorded there; a model call
\* that returns, whatever it returns, never makes the request fail.
C2_VectorIffHitOrValid ==
    [][BatchStep =>
        LET B == last'.texts
        IN  /\ (\A k \in 1..Len(last'.calls) : ~last'.calls[k].reply.raised)
                    => last'.status = "ok"
            /\ last'.status = "ok" =>
                \A i \in 1..Len(B) :
                    LET c == BatchText(B[i])
                        m == Cardinality(MissesUpTo(B, i))
                        r == last'.body.embeddings[i]
                    IN  /\ r = None \/ IsVector(r)
                        /\ IsVector(r) <=>
                            \/ Cached(c)
                            \/ /\ Len(last'.calls) = 1
                               /\ IsGoodOutput(
                                    last'.calls[1].reply.dense_vecs[m])]_vars

\* C2 witness: a batch of two misses returned; the model gave a vector one
\* short for the first text and a good one for the second: the first position
\* is None, the second a vector.
C2_Witness ==
    /\ last.op = "embed_batch" /\ last.status = "ok"
    /\ Len(last.texts) = 2
    /\ Len(last.calls) = 1 /\ Len(last.calls[1].texts) = 2
    /\ last.calls[1].reply.dense_vecs[1] = ndarray(EMBEDDING_DIM - 1, "u")
    /\ IsGoodOutput(last.calls[1].reply.dense_vecs[2])
    /\ last.body.embeddings[1] = None
    /\ IsVector(last.body.embeddings[2])

\* C3: a batch request calls the model at most once: not at all when no
\* position misses (or the batch is empty), and otherwise once, with exactly
\* the normalized texts of the missing positions, in input order.
C3_OneCallForMisses ==
    [][BatchStep =>
        LET B == last'.texts
            M == MissesUpTo(B, Len(B))
        IN  /\ Len(last'.calls) <= 1
            /\ IF M = {} THEN last'.calls = <<>>
               ELSE /\ Len(last'.calls) = 1
                    /\ Len(last'.calls[1].texts) = Cardinality(M)
                    /\ \A i \in M :
                        last'.calls[1].texts[Cardinality(MissesUpTo(B, i))]
                            = BatchText(B[i])]_vars

\* C3 witness: a batch whose first position missed and whose second hit made
\* one call, with the first position's text alone.
C3_Witness ==
    /\ last.op = "embed_batch"
    /\ Len(last.texts) = 2
    /\ Len(last.gets) = 2
    /\ last.gets[1].reply = "nil" /\ last.gets[2].reply = "bytes"
    /\ Len(last.calls) = 1
    /\ last.calls[1].texts = <<BatchText(last.texts[1])>>

\* The store answered every call the recorded request made to it.
StoreAnswered(r) ==
    /\ \A k \in 1..Len(r.gets) : r.gets[k].reply # "error"
    /\ \A k \in 1..Len(r.puts) : r.puts[k].reply = "ok"

\* The step is the second of two embed requests for the same text, last
\* being the record of the first and last' that of the second.
SecondEmbed ==
    /\ last.op = "embed" /\ last'.op = "embed"
    /\ last'.texts = last.texts
    /\ last' # last

\* The recorded embed returned a vector from the cache.
WasHit(r) == r.status = "ok" /\ "cached" \in DOMAIN r.body /\ r.body.cached

\* Between the two requests the cache is healthy: enabled, reachable for
\* both, and the entry the first one read or wrote has not expired.
HealthyBetween ==
    /\ CACHE_ENABLED
    /\ StoreAnswered(last)
    /\ redisUp
    /\ IF WasHit(last)
       THEN get_cache_key(Trimmed(last.texts[1])) \in DOMAIN redis
       ELSE now < last.at + CACHE_TTL

\* The second request hit the cache with the first one's vector, and the two
\* made at most one model call together.
SecondIsHit ==
    /\ last.status = "ok"
    /\ WasHit(last')
    /\ last'.body.embedding = last.body.embedding
    /\ Len(last.calls) + Len(last'.calls) <= 1

\* C4 as stated: for every text, the second of two embed requests in
\* succession with a healthy cache is a cache hit with the first one's
\* vector, with at most one model call in all.
C4_Original == [][(SecondEmbed /\ HealthyBetween) => SecondIsHit]_vars

\* C4 amended: for every text for which the first embed request returned a
\* vector, the second of two embed requests in succession with a healthy
\* cache is a cache hit with the identical vector, with at most one model
\* call in all.
C4_SecondEmbedHits ==
    [][(/\ SecondEmbed
        /\ HealthyBetween
        /\ last.status = "ok"
        /\ last.body.embedding # None) => SecondIsHit]_vars

\* C4 witness: a padded text embedded twice in succession; the first request
\* called the model, the second made no call and returned a cached vector.
C4_Witness ==
    /\ last.op = "embed" /\ last.again
    /\ last.texts = << <<" ", "a", " ">> >>
    /\ last.calls_before = 1
    /\ last.calls = <<>>
    /\ WasHit(last)
    /\ IsVector(last.body.embedding)

\* The key and the text of a single space.
Space == <<" ">>

\* C5: a blank (empty or whitespace-only) batch position is handled as the
\* single-space text: looked up under the key of the single space, on a miss
\* submitted to the model as a single space, its result None only when the
\* model's output for it is no good vector, and a good output is cached
\* under the key of the single space.
C5_BlankAsSpace ==
    [][BatchStep =>
        LET B == last'.texts
        IN  \A i \in 1..Len(B) : IsBlank(B[i]) =>
                LET m == Cardinality(MissesUpTo(B, i))
                IN  /\ CACHE_ENABLED =>
                            last'.gets[i].key = get_cache_key(Space)
                    /\ ~Cached(Space) => last'.calls[1].texts[m] = Space
                    /\ last'.status = "ok" =>
                        LET r == last'.body.embeddings[i]
                        IN  IF Cached(Space) THEN r = Entry(Space)
                            ELSE
                              LET out == last'.calls[1].reply.dense_vecs[m]
                              IN  /\ r = None <=> ~IsGoodOutput(out)
                                  /\ IsGoodOutput(out) =>
                                      /\ r = ListOf(out)
                                      /\ CACHE_ENABLED =>
                                          \E k \in 1..Len(last'.puts) :
                                            /\ last'.puts[k].put.key
                                                 = get_cache_key(Space)
                                            /\ last'.puts[k].put.value.pickle
                                                 = r]_vars

\* C5 witness: a batch whose second text is a tab returned a vector there,
\* after submitting a single space and caching under the single space's key.
C5_Witness ==
    /\ last.op = "embed_batch" /\ last.status = "ok"
    /\ Len(last.texts) = 2 /\ last.texts[2] = <<"\t">>
    /\ IsVector(last.body.embeddings[2])
    /\ Len(last.calls) = 1
    /\ last.calls[1].texts[Len(last.calls[1].texts)] = Space
    /\ \E k \in 1..Len(last.puts) :
            /\ last.puts[k].put.key = get_cache_key(Space)
            /\ last.puts[k].reply = "ok"
    /\ get_cache_key(Space) \in DOMAIN redis

\* C6: embed of a blank text returns {"embedding": None} at once: no lookup,
\* no write, no model call, and the store is as it was.
C6_BlankEmbedReturnsNull ==
    [][(EmbedStep /\ IsBlank(last'.texts[1])) =>
        /\ last'.status = "ok"
        /\ last'.body = [embedding |-> None]
        /\ last'.gets = <<>>
        /\ last'.puts = <<>>
        /\ last'.calls = <<>>
        /\ redis' = redis]_vars

\* C6 witness: embed of a tab returned None without a call, while the store
\* is reachable and holds a vector under the single space's key.
C6_Witness ==
    /\ last.op = "embed" /\ last.texts = << <<"\t">> >>
    /\ last.body = [embedding |-> None]
    /\ last.gets = <<>> /\ last.calls = <<>>
    /\ CACHE_ENABLED /\ redisUp
    /\ get_cache_key(Space) \in DOMAIN redis

\* The vectors a recorded request returned.
Returned(r) ==
    IF r.status # "ok" THEN {}
    ELSE IF r.op = "embed" THEN {r.body.embedding} \ {None}
    ELSE IF r.op = "embed_batch"
    THEN {r.body.embeddings[i] : i \in 1..Len(r.body.embeddings)} \ {None}
    ELSE {}

\* C7: from an empty store, every entry of the store holds a vector of
\* exactly EMBEDDING_DIM, every write sent to it carries one, and every
\* vector returned to a caller is one.
C7_OnlyFullVectors ==
    /\ \A k \in DOMAIN redis :
            redis[k].value.valid /\ IsVector(redis[k].value.pickle)
    /\ \A k \in 1..Len(last.puts) : IsVector(last.puts[k].put.value.pickle)
    /\ \A x \in Returned(last) : IsVector(x)

\* C7 witness: the model gave embed a vector one short; embed returned None
\* and wrote nothing, and the store holds the vectors cached before.
C7_Witness ==
    /\ last.op = "embed" /\ last.status = "ok"
    /\ Len(last.calls) = 1
    /\ last.calls[1].reply.dense_vecs = <<ndarray(EMBEDDING_DIM - 1, "u")>>
    /\ last.body = [embedding |-> None]
    /\ last.puts = <<>>
    /\ redis # <<>>

\* C8: a request whose model call failed fails as a whole: its response is
\* the error alone, without any embedding, and it made that one call only.
C8_ProviderFailureFailsAll ==
    (\E k \in 1..Len(last.calls) : last.calls[k].reply.raised) =>
        /\ last.status = "error"
        /\ last.body = ServerError
        /\ Len(last.calls) = 1

\* C8 witness: a batch whose first position was found in the cache and whose
\* model call for the second failed ended in the error.
C8_Witness ==
    /\ last.op = "embed_batch" /\ last.status = "error"
    /\ Len(last.texts) = 2
    /\ Len(last.gets) = 2
    /\ last.gets[1].reply = "bytes"
    /\ Len(last.calls) = 1 /\ last.calls[1].reply.raised

\* What holds of the store and of the latest request with the cache disabled:
\* the store was never written nor asked, no request hit, every non-blank
\* embed and every batch position went to the model, and a good output came
\* back as the result.
DisabledBehaviour ==
    /\ redis = <<>>
    /\ last.gets = <<>> /\ last.puts = <<>>
    /\ ~WasHit(last)
    /\ (last.op = "embed" /\ ~IsBlank(last.texts[1])) =>
        /\ Len(last.calls) = 1
        /\ last.calls[1].texts = <<Trimmed(last.texts[1])>>
        /\ (~last.calls[1].reply.raised
                /\ IsGoodOutput(last.calls[1].reply.dense_vecs[1])) =>
            last.body = [embedding |-> ListOf(last.calls[1].reply.dense_vecs[1]),
                         cached |-> FALSE]
    /\ (last.op = "embed_batch" /\ last.texts # <<>>) =>
        /\ Len(last.calls) = 1
        /\ Len(last.calls[1].texts) = Len(last.texts)

\* C9: a cache disabled at startup stays disabled whatever the server does
\* later: no read reaches the store, no write changes it, and every embed of
\* a non-blank text, the second one too, goes to the model.
C9_DisabledForever ==
    [][~CACHE_ENABLED => (~CACHE_ENABLED' /\ DisabledBehaviour')]_vars

\* C9 witness: the ping failed, the server has come back, and the second of
\* two embed requests for the same text called the model again, as the first
\* had, and returned a vector.
C9_Witness ==
    /\ ~CACHE_ENABLED /\ redisUp
    /\ last.op = "embed" /\ last.again
    /\ last.calls_before = 1
    /\ Len(last.calls) = 1
    /\ last.status = "ok" /\ IsVector(last.body.embedding)

\* The process with the store disabled at startup.
DisabledEnv == [enabled |-> FALSE, up |-> FALSE, store |-> <<>>, now |-> 0]

\* What embed_batch returns for batch B with the store disabled at startup
\* and the deterministic model answering.
DisabledRun(B) ==
    LET asked == BatchLookups(B, DisabledEnv).texts_to_generate
        reply == [raised |-> FALSE,
                  dense_vecs |-> [j \in 1..Len(asked) |-> model.encode[asked[j]]]]
    IN  embed_batch(B, DisabledEnv, reply).body

\* C10: with a deterministic model, a batch request that returns, in whatever
\* state the cache is, returns what the same request returns with the store
\* disabled at startup.
C10_SameAsDisabled ==
    (model.deterministic /\ last.op = "embed_batch" /\ last.status = "ok") =>
        last.body = DisabledRun(last.texts)

\* C10 witness: with the cache enabled, a batch of two was answered from the
\* cache alone, with two different vectors and no model call.
C10_Witness ==
    /\ model.deterministic /\ CACHE_ENABLED
    /\ last.op = "embed_batch" /\ last.status = "ok"
    /\ Len(last.texts) = 2
    /\ last.calls = <<>>
    /\ IsVector(last.body.embeddings[1])
    /\ IsVector(last.body.embeddings[2])
    /\ last.body.embeddings[1] # last.body.embeddings[2]

\* ----------------------------------- vocabulary of the call-by-call claims

\* The normalized text a handler is concerned with at position i.
TextAt(f, i) ==
    IF f.op = "embed" THEN Trimmed(f.texts[1]) ELSE BatchText(f.texts[i])

\* The step is worker w's handler making the call it stands at; the unprimed
\* variables are the state the call is made in.
LookupStep(w) == flight[w].pc = "lookup" /\ flight'[w] # flight[w]

EncodeStep(w) == flight[w].pc = "encode" /\ flight'[w] # flight[w]

FillStep(w) ==
    /\ flight[w].pc = "fill"
    /\ flight'[w].pc \in {"fill", "done"}
    /\ flight'[w] # flight[w]

\* The step ends worker w's request with a response.
ReturnStep(w) ==
    flight[w].pc \notin {"done", "cancelled"} /\ flight'[w].pc = "done"

\* C11: with the store in use since startup, no lookup and no write that the
\* store fails or answers with bytes that do not deserialize makes a request
\* fail. A lookup hits exactly when the store answers with a value that
\* deserializes, and is a miss otherwise: the position is submitted to the
\* model like an absent key. A write the store does not take changes nothing
\* and the vector is returned all the same. Only a model call that raises
\* makes a request fail, and the response of a batch is its results as the
\* lookups and the model's outputs made them.
C11_StoreFaultsAbsorbed ==
    [][\A w \in Workers :
        LET f == flight[w]
            g == flight'[w]
        IN  /\ LookupStep(w) =>
                LET c == TextAt(f, f.i)
                IN  /\ g.status = "ok"
                    /\ IF Cached(c)
                       THEN /\ g.texts_to_generate = f.texts_to_generate
                            /\ g.indices_to_generate = f.indices_to_generate
                            /\ IF f.op = "embed"
                               THEN /\ g.pc = "done"
                                    /\ g.body = [embedding |-> Entry(c),
                                                 cached |-> TRUE]
                               ELSE g.results = Append(f.results, Entry(c))
                       ELSE /\ g.texts_to_generate =
                                    Append(f.texts_to_generate, c)
                            /\ g.indices_to_generate =
                                    Append(f.indices_to_generate, f.i)
                            /\ g.pc \in {"lookup", "encode"}
                            /\ f.op = "embed_batch" =>
                                    g.results = Append(f.results, None)
            /\ FillStep(w) =>
                LET idx == f.indices_to_generate[f.i]
                    vec == f.vectors[f.i]
                IN  /\ g.status = "ok"
                    /\ ~Reachable => redis' = redis
                    /\ IF f.op = "embed"
                       THEN g.body = [embedding |-> ListOf(vec),
                                      cached |-> FALSE]
                       ELSE g.results =
                                [f.results EXCEPT ![idx] =
                                    IF IsGoodOutput(vec) THEN ListOf(vec)
                                    ELSE None]
            /\ (f.status = "ok" /\ g.status = "error") =>
                    /\ EncodeStep(w)
                    /\ g.calls[Len(g.calls)].reply.raised
            /\ (ReturnStep(w) /\ g.status = "ok" /\ g.op = "embed_batch") =>
                    /\ g.body = [embeddings |-> g.results]
                    /\ Len(g.results) = Len(g.texts)
      ]_vars

\* A batch has returned two vectors although its first lookup met bytes that
\* do not deserialize, its second lookup was not answered and a write was
\* not taken.
C11_Witness ==
    \E w \in Workers :
        LET f == flight[w]
        IN  /\ CACHE_ENABLED
            /\ f.pc = "done" /\ f.op = "embed_batch" /\ f.status = "ok"
            /\ Len(f.texts) = 2 /\ Len(f.gets) = 2
            /\ f.gets[1].reply = "bytes" /\ f.indices_to_generate = <<1, 2>>
            /\ f.gets[2].reply = "error"
            /\ \E k \in 1..Len(f.puts) : f.puts[k].reply = "error"
            /\ \A i \in 1..2 : IsVector(f.body.embeddings[i])

\* Handler f has looked key up and was answered with bytes that made the
\* position a miss: bytes that do not deserialize.
SawCorrupt(f, key) ==
    \E n \in 1..Len(f.gets) :
        /\ f.gets[n].key = key
        /\ f.gets[n].reply = "bytes"
        /\ \E m \in 1..Len(f.indices_to_generate) :
                f.indices_to_generate[m] = n

\* The key is held with bytes that do not deserialize.
HoldsCorrupt(store, key) == key \in DOMAIN store /\ ~store[key].value.valid

\* C12 as the specification states it: a request that has looked up a key
\* holding a corrupt value leaves that value as it was.
C12_Original ==
    [][\A w \in Workers : \A key \in Keys :
        (FillStep(w) /\ SawCorrupt(flight[w], key) /\ HoldsCorrupt(redis, key))
            => (key \in DOMAIN redis' /\ redis'[key] = redis[key])
      ]_vars

\* C12: a stored value that does not deserialize is a miss, and no lookup
\* changes or deletes it. No step of a handler deletes it either; it is
\* replaced exactly by the write-back of a position with that key for which
\* the model returned a valid vector while the store takes the write, and
\* then with that vector.
C12_CorruptKeptUntilWriteBack ==
    [][\A w \in Workers :
        LET f == flight[w]
        IN  /\ LookupStep(w) =>
                /\ redis' = redis
                /\ HoldsCorrupt(redis, get_cache_key(TextAt(f, f.i))) =>
                        /\ Len(flight'[w].indices_to_generate) =
                                Len(f.indices_to_generate) + 1
                        /\ flight'[w].status = "ok"
            /\ (EncodeStep(w) \/ ReturnStep(w)) =>
                    \A key \in Keys : HoldsCorrupt(redis, key) =>
                                            key \in DOMAIN redis'
            /\ FillStep(w) =>
                LET idx == f.indices_to_generate[f.i]
                    vec == f.vectors[f.i]
                    own == get_cache_key(TextAt(f, idx))
                IN  \A key \in Keys : HoldsCorrupt(redis, key) =>
                        /\ key \in DOMAIN redis'
                        /\ IF key = own /\ Reachable /\ IsGoodOutput(vec)
                           THEN /\ redis'[key].value.valid
                                /\ redis'[key].value.pickle = ListOf(vec)
                           ELSE redis'[key] = redis[key]
      ]_vars

\* A handler that met a corrupt value under a key has returned, and the key
\* now holds the vector the handler got from the model.
C12_Witness ==
    \E w \in Workers : \E key \in Keys :
        LET f == flight[w]
        IN  /\ f.pc = "done" /\ f.status = "ok"
            /\ SawCorrupt(f, key)
            /\ \E k \in 1..Len(f.puts) :
                    f.puts[k].put.key = key /\ f.puts[k].reply = "ok"
            /\ key \in DOMAIN redis /\ redis[key].value.valid

\* What a reader gets for normalized text c at time t from a store that is
\* in use and answers.
Get(store, c, t) ==
    get_cached_embedding(c, [enabled |-> TRUE, up |-> TRUE,
                             store |-> redis_expire(store, t),
                             now |-> t]).value

\* The times from now on at which a reader can come.
LaterTimes == {now + j * TickStep : j \in 0..(MaxTicks + 1)}

\* The step is a write worker w's handler makes and the store takes, of the
\* very value the store holds under that key from an earlier write.
SecondPut(w, key) ==
    /\ FillStep(w)
    /\ Len(flight'[w].puts) = Len(flight[w].puts) + 1
    /\ LET p == flight'[w].puts[Len(flight'[w].puts)]
       IN  /\ p.reply = "ok"
           /\ p.put.key = key
           /\ key \in DOMAIN redis
           /\ redis[key].value = p.put.value

\* C13 as the specification states it: whenever the second write of the same
\* vector happens, no reader at any later time can tell the store written
\* twice from the store written once.
C13_Original ==
    [][\A w \in Workers : \A key \in Keys :
        SecondPut(w, key) =>
            \A t \in LaterTimes : \A c \in CleanTexts :
                Get(redis', c, t) = Get(redis, c, t)
      ]_vars

\* C13: writing the same vector under a key a second time is the same as
\* writing it once at the time of the second write: the value stays and the
\* entry's time to live starts again, and no reader at any later time can
\* tell the store from one where the key was written at that time only.
\* When the two writes happen at the same time, the second changes nothing.
C13_PutIdempotentFromLastWrite ==
    [][\A w \in Workers : \A key \in Keys :
        SecondPut(w, key) =>
            LET without == [k \in DOMAIN redis \ {key} |-> redis[k]]
                once == redis_setex(without, key, CACHE_TTL,
                                    redis[key].value, now)
            IN  /\ redis' = once
                /\ \A t \in LaterTimes : \A c \in CleanTexts :
                        Get(redis', c, t) = Get(once, c, t)
                /\ redis[key].expire = now + CACHE_TTL => redis' = redis
      ]_vars

\* A handler has written the same vector under the same key twice, the
\* second time later than the first, and the store took both writes.
C13_Witness ==
    \E w \in Workers :
        LET f == flight[w]
        IN  /\ Len(f.puts) = 2
            /\ f.puts[1].put = f.puts[2].put
            /\ f.puts[1].reply = "ok" /\ f.puts[2].reply = "ok"
            /\ f.puts[1].at < f.puts[2].at
            /\ redis[f.puts[2].put.key].expire = f.puts[2].at + CACHE_TTL

\* The model's reply to the one call handler f made, if it made one and the
\* call returned.
Outputs(f) ==
    IF f.calls # <<>> /\ ~f.calls[1].reply.raised
    THEN f.calls[1].reply.dense_vecs ELSE <<>>

\* Vector v is what the model returned to one of the handlers fl for
\* normalized text c.
ProducedFor(fl, c, v) ==
    \E w \in Workers : \E m \in 1..Len(Outputs(fl[w])) :
        /\ fl[w].texts_to_generate[m] = c
        /\ IsGoodOutput(Outputs(fl[w])[m])
        /\ ListOf(Outputs(fl[w])[m]) = v

\* The response of handler f at position i, and the ranks at which position
\* i was submitted to the model.
Returned_at(f, i) ==
    IF f.op = "embed" THEN f.body.embedding ELSE f.body.embeddings[i]

RanksOf(f, i) ==
    {m \in 1..Len(f.indices_to_generate) : f.indices_to_generate[m] = i}

\* A handler that has returned gave every position of its own input its own
\* vector: the model's output for the position if it was submitted, a vector
\* the model produced for the same normalized text if it was a hit.
AlignedResponse(fl, f) ==
    /\ f.op = "embed_batch" => Len(f.body.embeddings) = Len(f.texts)
    /\ \A i \in 1..Len(f.texts) :
        IF f.op = "embed" /\ IsBlank(f.texts[1])
        THEN f.body.embedding = None
        ELSE IF RanksOf(f, i) = {}
        THEN ProducedFor(fl, TextAt(f, i), Returned_at(f, i))
        ELSE \A m \in RanksOf(f, i) :
                /\ f.texts_to_generate[m] = TextAt(f, i)
                /\ Returned_at(f, i) =
                        IF IsGoodOutput(Outputs(f)[m])
                        THEN ListOf(Outputs(f)[m]) ELSE None

\* Handler f has written, and the store has taken, a vector for text c.
HasWritten(f, c) ==
    \E n \in 1..Len(f.puts) :
        f.puts[n].reply = "ok" /\ f.puts[n].put.key = get_cache_key(c)

\* C14: however the calls of two concurrent requests interleave, a request
\* fails only when its own model call raises; a request that returns gives
\* each position of its own input its own vector; every entry of the store
\* is a vector of EMBEDDING_DIM that the model produced for the text of its
\* key; a write that the store takes replaces what the key held (the last
\* write wins) and touches no other key; and with the store in use and
\* answering, a handler that returns has written every valid vector it got,
\* and a text for which a handler has written has an entry.
C14_InterleavingsHarmless ==
    [][/\ \A w \in Workers :
            LET f == flight'[w]
            IN  /\ f.status = "error" =>
                        (f.calls # <<>> /\ f.calls[1].reply.raised)
                /\ (f.pc = "done" /\ f.status = "ok" /\ f.texts # <<>>) =>
                        AlignedResponse(flight', f)
                /\ \A c \in CleanTexts :
                        HasWritten(f, c) => get_cache_key(c) \in DOMAIN redis'
                /\ (f.pc = "done" /\ Reachable) =>
                        \A m \in 1..Len(Outputs(f)) :
                            IsGoodOutput(Outputs(f)[m]) =>
                                HasWritten(f, f.texts_to_generate[m])
       /\ \A c \in CleanTexts :
            get_cache_key(c) \in DOMAIN redis' =>
                /\ redis'[get_cache_key(c)].value.valid
                /\ IsVector(redis'[get_cache_key(c)].value.pickle)
                /\ ProducedFor(flight', c,
                                redis'[get_cache_key(c)].value.pickle)
       /\ \A w \in Workers :
            (FillStep(w) /\ Len(flight'[w].puts) > Len(flight[w].puts)) =>
                LET p == flight'[w].puts[Len(flight'[w].puts)]
                IN  IF p.reply = "ok"
                    THEN /\ redis'[p.put.key].value = p.put.value
                         /\ \A k \in DOMAIN redis \ {p.put.key} :
                                redis'[k] = redis[k]
                    ELSE redis' = redis
      ]_vars

\* Both workers missed the same text and both called the model; each has
\* returned the vector it got itself, the two vectors differ, both wrote
\* under the one key, and the key holds one of the two.
C14_Witness ==
    \E c \in CleanTexts :
        LET p == flight["p"]
            q == flight["q"]
        IN  /\ p.pc = "done" /\ q.pc = "done"
            /\ p.op = "embed_batch" /\ Len(p.texts) = 2
            /\ p.texts_to_generate = <<c, c>>
            /\ q.texts_to_generate = <<c>>
            /\ HasWritten(p, c) /\ HasWritten(q, c)
            /\ p.body.embeddings[2] = ListOf(Outputs(p)[2])
            /\ Returned_at(q, 1) = ListOf(Outputs(q)[1])
            /\ p.body.embeddings[2] # Returned_at(q, 1)
            /\ redis[get_cache_key(c)].value.pickle = p.body.embeddings[2]

\* C15 as the specification states it: once a key is held, no step of a
\* handler changes or deletes the entry.
C15_Original ==
    [][\A w \in Workers :
        (LookupStep(w) \/ EncodeStep(w) \/ FillStep(w)) =>
            \A key \in DOMAIN redis :
                key \in DOMAIN redis' /\ redis'[key] = redis[key]
      ]_vars

\* C15: a handler writes only in its write-back, after a model call that
\* returned, and only under the key of a position that missed and got a
\* valid vector; a position that hit is never one of those. No step of a
\* handler deletes an entry, and every entry under another key than the one
\* written stays as it is; an entry under the written key is replaced. An
\* entry leaves the store only when the clock reaches its expiry.
C15_WrittenOnlyForMisses ==
    [][/\ \A w \in Workers :
            LET f == flight[w]
            IN  /\ (LookupStep(w) \/ EncodeStep(w)) => redis' = redis
                /\ (LookupStep(w) /\ Cached(TextAt(f, f.i))) =>
                        flight'[w].indices_to_generate = f.indices_to_generate
                /\ FillStep(w) =>
                    LET idx == f.indices_to_generate[f.i]
                        vec == f.vectors[f.i]
                        own == get_cache_key(TextAt(f, idx))
                    IN  /\ f.calls # <<>> /\ ~f.calls[1].reply.raised
                        /\ DOMAIN redis \subseteq DOMAIN redis'
                        /\ \A key \in DOMAIN redis' :
                            IF key = own /\ Reachable /\ IsGoodOutput(vec)
                            THEN redis'[key] =
                                    [value |-> pickle_dumps(ListOf(vec)),
                                     expire |-> now + CACHE_TTL]
                            ELSE key \in DOMAIN redis
                                    /\ redis'[key] = redis[key]
       /\ \A key \in DOMAIN redis \ DOMAIN redis' :
            now' > now /\ redis[key].expire <= now'
      ]_vars

\* A batch with one text at two positions has returned: both positions
\* missed, the store took a write for each under the one key, the second
\* with another vector than the first, and the key holds the second.
C15_Witness ==
    \E w \in Workers :
        LET f == flight[w]
        IN  /\ f.pc = "done" /\ Len(f.puts) = 2
            /\ f.puts[1].reply = "ok" /\ f.puts[2].reply = "ok"
            /\ f.puts[1].put.key = f.puts[2].put.key
            /\ f.puts[1].put.value # f.puts[2].put.value
            /\ redis[f.puts[2].put.key].value = f.puts[2].put.value

\* The positions of batch B that miss in the starting state and carry
\* normalized text c.
MissesOf(B, c) ==
    {i \in 1..Len(B) : BatchText(B[i]) = c /\ ~Cached(c)}

\* The rank of position i among the misses of batch B.
RankOf(B, i) == Cardinality(MissesUpTo(B, i))

\* C16: embed_batch does not deduplicate. When a normalized text stands at
\* several positions of a batch that all miss, the one model call carries
\* the text once for each of them, at the rank of each; when the call
\* returns, each of those positions gets the output returned at its own
\* rank, and with the store in use and answering there is one write under
\* the text's key for every one of them whose output is valid. From an empty
\* store the model receives as many texts as the batch has.
C16_NoDeduplication ==
    [][BatchStep =>
        LET B == last'.texts
            r == last'
        IN  /\ \A c \in CleanTexts :
                Cardinality(MissesOf(B, c)) >= 2 =>
                    /\ Len(r.calls) = 1
                    /\ Len(r.calls[1].texts) = Cardinality(MissesUpTo(B, Len(B)))
                    /\ \A i \in MissesOf(B, c) :
                            r.calls[1].texts[RankOf(B, i)] = c
                    /\ ~r.calls[1].reply.raised =>
                        LET out == r.calls[1].reply.dense_vecs
                            good == {i \in MissesOf(B, c) :
                                        IsGoodOutput(out[RankOf(B, i)])}
                            writes == {k \in 1..Len(r.puts) :
                                        r.puts[k].put.key = get_cache_key(c)}
                        IN  /\ \A i \in MissesOf(B, c) :
                                r.body.embeddings[i] =
                                    IF i \in good
                                    THEN ListOf(out[RankOf(B, i)])
                                    ELSE None
                            /\ Reachable =>
                                    Cardinality(writes) = Cardinality(good)
                            /\ (Reachable /\ good # {}) =>
                                \E i \in good :
                                    /\ \A j \in good : j <= i
                                    /\ redis'[get_cache_key(c)].value.pickle
                                            = ListOf(out[RankOf(B, i)])
            /\ (B # <<>> /\ redis = <<>>) =>
                    /\ Len(r.calls) = 1
                    /\ r.calls[1].texts = [i \in 1..Len(B) |-> BatchText(B[i])]
      ]_vars

\* A batch of one text in two spellings has returned from an empty store:
\* the model was given the text twice, the two positions got the two
\* different vectors it returned, and there were two writes under the key.
C16_Witness ==
    /\ last.op = "embed_batch" /\ last.status = "ok"
    /\ Len(last.texts) = 2
    /\ last.texts[1] # last.texts[2]
    /\ Len(last.gets) = 2
    /\ last.gets[1].reply = "nil" /\ last.gets[2].reply = "nil"
    /\ Len(last.calls) = 1
    /\ last.calls[1].texts = <<Trimmed(last.texts[1]), Trimmed(last.texts[1])>>
    /\ IsVector(last.body.embeddings[1]) /\ IsVector(last.body.embeddings[2])
    /\ last.body.embeddings[1] # last.body.embeddings[2]
    /\ Len(last.puts) = 2
    /\ last.puts[1].put.key = last.puts[2].put.key
    /\ last.puts[1].reply = "ok" /\ last.puts[2].reply = "ok"

\* The pairs of its write-back that handler f is through with and whose
\* vector is valid: the writes it has made.
GoodBefore(f) == {j \in 1..(f.i - 1) : IsGoodOutput(f.vectors[j])}

\* The normalized text of the j-th pair of handler f's write-back.
PairText(f, j) == TextAt(f, f.indices_to_generate[j])

\* C17: a batch request cancelled in its write-back, with the store in use
\* and answering, has made the writes of the pairs it was through with and
\* no other: a text it missed has an entry exactly when one of those pairs
\* wrote it, and the entry is the vector of the last such pair. The
\* cancellation changes nothing in the store and a cancelled handler writes
\* nothing more. Every write is a valid vector, the model's output for the
\* text whose key it is written under, and every entry of the store is a
\* vector of EMBEDDING_DIM. A request that comes later does not fail unless
\* its model call raises and gets at every position the entry under its own
\* text's key if there is one, else the model's output for that text.
C17_CancelLeavesPrefix ==
    [][/\ LET f == flight["p"]
          IN  (f.pc = "fill" /\ f.op = "embed_batch"
                    /\ flight'["p"].pc = "cancelled" /\ Reachable) =>
                /\ redis' = redis
                /\ Len(f.puts) = Cardinality(GoodBefore(f))
                /\ \A n \in 1..Len(f.puts) : f.puts[n].reply = "ok"
                /\ \A m \in 1..Len(f.indices_to_generate) :
                    LET key == get_cache_key(PairText(f, m))
                        wrote == {j \in GoodBefore(f) :
                                    PairText(f, j) = PairText(f, m)}
                    IN  IF wrote = {} THEN key \notin DOMAIN redis
                        ELSE /\ key \in DOMAIN redis
                             /\ \E j \in wrote :
                                    /\ \A k \in wrote : k <= j
                                    /\ redis[key].value.pickle =
                                            ListOf(f.vectors[j])
       /\ flight["p"].pc = "cancelled" =>
                flight'["p"].pc \in {"cancelled", "idle"}
       /\ \A w \in Workers :
            LET f == flight[w]
                g == flight'[w]
            IN  /\ (FillStep(w) /\ Len(g.puts) > Len(f.puts)) =>
                    LET p == g.puts[Len(g.puts)].put
                    IN  /\ f.texts_to_generate[f.i] = PairText(f, f.i)
                        /\ p.key = get_cache_key(PairText(f, f.i))
                        /\ IsGoodOutput(f.vectors[f.i])
                        /\ p.value = pickle_dumps(ListOf(f.vectors[f.i]))
                /\ LookupStep(w) =>
                    LET c == TextAt(f, f.i)
                    IN  IF Cached(c)
                        THEN IF f.op = "embed"
                             THEN g.body = [embedding |-> Entry(c),
                                            cached |-> TRUE]
                             ELSE g.results = Append(f.results, Entry(c))
                        ELSE g.texts_to_generate =
                                    Append(f.texts_to_generate, c)
                /\ (ReturnStep(w) /\ g.op = "embed_batch") =>
                    IF g.status = "error"
                    THEN g.calls[1].reply.raised
                    ELSE /\ g.body = [embeddings |-> g.results]
                         /\ \A i \in 1..Len(g.texts) :
                                \A m \in RanksOf(g, i) :
                                    g.results[i] =
                                        IF IsGoodOutput(Outputs(g)[m])
                                        THEN ListOf(Outputs(g)[m]) ELSE None
       /\ \A key \in DOMAIN redis' :
            redis'[key].value.valid /\ IsVector(redis'[key].value.pickle)
      ]_vars

\* The batch of worker p was cancelled after the first of its two writes:
\* the store holds the first text's vector and nothing for the second text,
\* and the embed that came after for the first text was answered from the
\* cache with that vector.
C17_Witness ==
    LET p == flight["p"]
        q == flight["q"]
    IN  /\ p.pc = "cancelled" /\ p.i = 2
        /\ Len(p.vectors) = 2
        /\ IsGoodOutput(p.vectors[1]) /\ IsGoodOutput(p.vectors[2])
        /\ Len(p.puts) = 1 /\ p.puts[1].reply = "ok"
        /\ get_cache_key(PairText(p, 2)) \notin DOMAIN redis
        /\ q.pc = "done" /\ q.op = "embed"
        /\ Trimmed(q.texts[1]) = PairText(p, 1)
        /\ q.body = [embedding |-> ListOf(p.vectors[1]), cached |-> TRUE]

\* The normalized texts of the request recorded in r, position by position;
\* a blank text of an embed has none.
RequestTexts(r) ==
    IF r.op = "embed"
    THEN IF IsBlank(r.texts[1]) THEN <<>> ELSE <<Trimmed(r.texts[1])>>
    ELSE [i \in 1..Len(r.texts) |-> BatchText(r.texts[i])]

\* The positions of request r that miss in the starting state, in order.
MissedUpTo(T, i) == {k \in 1..i : ~Cached(T[k])}

\* C18: a request writes only under the keys of positions that missed and
\* whose model output is valid: every write it sends is for such a position,
\* with that output. A request whose positions all hit, and a request whose
\* model call raises, send no write and leave the store as it is, expiries
\* included. After a request every entry is either one it wrote, expiring
\* CACHE_TTL after the request, or the entry the key held before, with the
\* expiry it had. The clock alone removes entries, each exactly when its
\* expiry is reached, so at all times an entry's expiry is at most CACHE_TTL
\* away.
C18_WritesOnlyValidMisses ==
    [][/\ (BatchStep \/ EmbedStep) =>
            LET r == last'
                T == RequestTexts(r)
                out == IF r.calls # <<>> /\ ~r.calls[1].reply.raised
                       THEN r.calls[1].reply.dense_vecs ELSE <<>>
                good == {i \in MissedUpTo(T, Len(T)) :
                            /\ out # <<>>
                            /\ IsGoodOutput(
                                out[Cardinality(MissedUpTo(T, i))])}
            IN  /\ \A n \in 1..Len(r.puts) :
                    \E i \in good :
                        /\ r.puts[n].put.key = get_cache_key(T[i])
                        /\ r.puts[n].put.ttl = CACHE_TTL
                        /\ r.puts[n].put.value.pickle =
                            ListOf(out[Cardinality(MissedUpTo(T, i))])
                /\ CACHE_ENABLED => Len(r.puts) = Cardinality(good)
                /\ (r.calls = <<>> \/ r.status = "error") =>
                        r.puts = <<>> /\ redis' = redis
                /\ DOMAIN redis \subseteq DOMAIN redis'
                /\ \A key \in DOMAIN redis' :
                    IF \E n \in 1..Len(r.puts) :
                            r.puts[n].put.key = key /\ r.puts[n].reply = "ok"
                    THEN redis'[key].expire = now + CACHE_TTL
                    ELSE key \in DOMAIN redis /\ redis'[key] = redis[key]
       /\ now' # now =>
            \A key \in DOMAIN redis :
                IF redis[key].expire > now'
                THEN key \in DOMAIN redis' /\ redis'[key] = redis[key]
                ELSE key \notin DOMAIN redis'
       /\ \A key \in DOMAIN redis' :
            now' < redis'[key].expire /\ redis'[key].expire <= now' + CACHE_TTL
      ]_vars

\* An embed has been answered from the cache for the second time in a row,
\* half an entry's life after the entry was written: nothing was written and
\* the entry still expires CACHE_TTL after its write.
C18_Witness ==
    /\ last.op = "embed" /\ last.again /\ last.calls_before = 0
    /\ last.calls = <<>> /\ last.puts = <<>>
    /\ Len(last.gets) = 1 /\ last.gets[1].reply = "bytes"
    /\ last.body.embedding # None
    /\ last.at = TickStep
    /\ redis[last.gets[1].key].expire = CACHE_TTL

\* The ranks at which handler f submitted a text that is t up to leading and
\* trailing whitespace and got a valid vector back: the vectors it cached
\* for t.
CachedFor(f, t) ==
    {m \in 1..Len(Outputs(f)) :
        /\ Trimmed(f.texts[f.indices_to_generate[m]]) = Trimmed(t)
        /\ IsGoodOutput(Outputs(f)[m])}

\* C19: embed and embed_batch keep a text under the same key. With the store
\* in use and answering, when one of the two has returned after caching a
\* vector for a text with non-whitespace content, a lookup the other makes
\* afterwards for that text, or for a text that differs from it only in
\* leading and trailing whitespace, is a hit: the position gets the vector
\* cached last for the text and is not submitted to the model; an embed
\* returns it as cached.
C19_SameKeyInBothHandlers ==
    [][\A v \in Workers : \A w \in Workers \ {v} :
        LET h == flight[v]
            f == flight[w]
            g == flight'[w]
        IN  (/\ LookupStep(w)
             /\ Reachable
             /\ h.pc = "done" /\ h.op # f.op
             /\ ~IsBlank(f.texts[IF f.op = "embed" THEN 1 ELSE f.i])
             /\ CachedFor(h, f.texts[IF f.op = "embed" THEN 1 ELSE f.i]) # {})
            =>
            LET t == f.texts[IF f.op = "embed" THEN 1 ELSE f.i]
                m == CHOOSE m \in CachedFor(h, t) :
                        \A k \in CachedFor(h, t) : k <= m
                vector == ListOf(Outputs(h)[m])
            IN  /\ g.texts_to_generate = f.texts_to_generate
                /\ g.indices_to_generate = f.indices_to_generate
                /\ g.calls = <<>>
                /\ IF f.op = "embed"
                   THEN /\ g.pc = "done"
                        /\ g.body = [embedding |-> vector, cached |-> TRUE]
                   ELSE g.results = Append(f.results, vector)
      ]_vars

\* An embed has cached the vector of a text; the batch that came after holds
\* a blank text and, at its second position, the same text with whitespace
\* around it: it has returned the embed's vector there and has submitted
\* the blank text alone.
C19_Witness ==
    LET p == flight["p"]
        q == flight["q"]
    IN  /\ q.pc = "done" /\ q.op = "embed"
        /\ Len(q.puts) = 1 /\ q.puts[1].reply = "ok"
        /\ q.body.cached = FALSE
        /\ p.pc = "done" /\ p.op = "embed_batch" /\ Len(p.texts) = 2
        /\ p.status = "ok"
        /\ p.texts[2] # q.texts[1]
        /\ Trimmed(p.texts[2]) = Trimmed(q.texts[1])
        /\ p.indices_to_generate = <<1>>
        /\ Len(p.calls) = 1 /\ p.calls[1].texts = <<Space>>
        /\ p.body.embeddings[2] = q.body.embedding

====
